---- MODULE Spec2Model ----
(***************************************************************************)
(* A model of spell.py: the NonEnglishSpellCorrector class (phonetic       *)
(* normalisation, the composite similarity score, the best-match search)   *)
(* and the batch run of process_file over the demo files.                  *)
(*                                                                         *)
(* A token is a sequence of one-character strings, <<"R","a","m">> for     *)
(* "Ram".  A score is an exact fraction <<n, d>> in lowest terms (d > 0);  *)
(* the code computes the same quantities in binary floating point.         *)
(***************************************************************************)
EXTENDS Integers, Sequences, FiniteSets, TLC

VARIABLES
    reference_file,   \* the lines of the reference file given to __init__
    reference_words,  \* self.reference_words: set of tokens
    word_variants,    \* self.word_variants: lowercase key -> list of tokens
    scan_order,       \* the order in which iterating self.reference_words yields it
    pc,               \* which call returned last
    query,            \* find_best_match: error_word of the last call
    threshold,        \* find_best_match: threshold of the last call
    result,           \* find_best_match: returned token of the last call
    raised,           \* whether the last call raised an exception
    n_scored,         \* calculate_similarity_score calls made by the last call
    original,         \* the query that started the current chain of corrections
    input_file,       \* process_file: the lines of the input file
    results,          \* process_file: the (original, corrected) pairs written
    w1, w2,           \* arguments of a direct call of a scoring function
    ret               \* what that call returned

vars == <<reference_file, reference_words, word_variants, scan_order, pc, query,
          threshold, result, raised, n_scored, original, input_file, results,
          w1, w2, ret>>

(***************************************************************************)
(* Bounds of the model.                                                    *)
(***************************************************************************)
MaxLines == 2
MaxLen == 3

(***************************************************************************)
(* Characters and str methods.                                             *)
(***************************************************************************)
UpperCase == <<"A","B","C","D","E","F","G","H","I","J","K","L","M",
               "N","O","P","Q","R","S","T","U","V","W","X","Y","Z">>
LowerCase == <<"a","b","c","d","e","f","g","h","i","j","k","l","m",
               "n","o","p","q","r","s","t","u","v","w","x","y","z">>
VowelSeq == <<"a","e","i","o","u">>
ConsonantSeq == <<"b","c","d","f","g","h","j","k","l","m","n",
                  "p","q","r","s","t","v","w","x","y","z">>
Vowels == {VowelSeq[i] : i \in DOMAIN VowelSeq}
Consonants == {ConsonantSeq[i] : i \in DOMAIN ConsonantSeq}
Whitespace == {" "}

Max(a, b) == IF a >= b THEN a ELSE b
Min(a, b) == IF a <= b THEN a ELSE b
Abs(a) == IF a >= 0 THEN a ELSE 0 - a
RECURSIVE Repeat(_, _)
Repeat(c, n) == IF n <= 0 THEN <<>> ELSE <<c>> \o Repeat(c, n - 1)

lower_char(c) ==
    IF \E i \in DOMAIN UpperCase : UpperCase[i] = c
    THEN LowerCase[CHOOSE i \in DOMAIN UpperCase : UpperCase[i] = c]
    ELSE c

\* str.lower()
RECURSIVE lower(_)
lower(w) == IF w = <<>> THEN <<>> ELSE <<lower_char(Head(w))>> \o lower(Tail(w))

\* str.strip()
RECURSIVE lstrip(_)
lstrip(w) ==
    IF w # <<>> /\ Head(w) \in Whitespace THEN lstrip(Tail(w)) ELSE w

RECURSIVE rstrip(_)
rstrip(w) ==
    IF w # <<>> /\ w[Len(w)] \in Whitespace
    THEN rstrip(SubSeq(w, 1, Len(w) - 1)) ELSE w

strip(w) == rstrip(lstrip(w))

\* str.replace(old, new): the non-overlapping occurrences, left to right
RECURSIVE str_replace(_, _, _)
str_replace(w, old, new) ==
    IF Len(w) < Len(old) THEN w
    ELSE IF SubSeq(w, 1, Len(old)) = old
         THEN new \o str_replace(SubSeq(w, Len(old) + 1, Len(w)), old, new)
         ELSE <<Head(w)>> \o str_replace(Tail(w), old, new)

(***************************************************************************)
(* _create_phonetic_map: the (variant, standard) pairs in the order the    *)
(* dict literal inserts them, which is the order .items() yields them.     *)
(***************************************************************************)
create_phonetic_map ==
    [k \in 1..15 |->
        <<Repeat(VowelSeq[((k - 1) \div 3) + 1], ((k - 1) % 3) + 2),
          <<VowelSeq[((k - 1) \div 3) + 1]>>>>]
    \o << <<<<"p","h">>, <<"f">>>>, <<<<"g","h">>, <<"g">>>>,
          <<<<"k","h">>, <<"k">>>>, <<<<"t","h">>, <<"t">>>>,
          <<<<"c","h">>, <<"c">>>>, <<<<"s","h">>, <<"s">>>>,
          <<<<"z","h">>, <<"z">>>> >>
    \o [k \in 1..Len(ConsonantSeq) |->
        <<Repeat(ConsonantSeq[k], 2), <<ConsonantSeq[k]>>>>]

phonetic_map == create_phonetic_map

\* the length of the run of w[1] that w starts with
RECURSIVE RunLength(_)
RunLength(w) ==
    IF Len(w) >= 2 /\ w[2] = w[1] THEN 1 + RunLength(Tail(w)) ELSE Min(1, Len(w))

\* re.sub(r'([aeiou])\1{2,}', r'\1\1', w)
RECURSIVE sub_vowel_runs(_)
sub_vowel_runs(w) ==
    IF w = <<>> THEN <<>>
    ELSE IF Head(w) \in Vowels /\ RunLength(w) >= 3
         THEN <<Head(w), Head(w)>>
              \o sub_vowel_runs(SubSeq(w, RunLength(w) + 1, Len(w)))
         ELSE <<Head(w)>> \o sub_vowel_runs(Tail(w))

\* re.sub(r'([bcdfghjklmnpqrstvwxyz])\1+', r'\1', w)
RECURSIVE sub_consonant_runs(_)
sub_consonant_runs(w) ==
    IF w = <<>> THEN <<>>
    ELSE IF Head(w) \in Consonants /\ RunLength(w) >= 2
         THEN <<Head(w)>>
              \o sub_consonant_runs(SubSeq(w, RunLength(w) + 1, Len(w)))
         ELSE <<Head(w)>> \o sub_consonant_runs(Tail(w))

\* the loop over self.phonetic_map.items(), entries lo..hi in order (split in
\* halves: the replacements are applied one after the other all the same)
RECURSIVE apply_phonetic_map(_, _, _)
apply_phonetic_map(w, lo, hi) ==
    IF lo = hi
    THEN str_replace(w, phonetic_map[lo][1], phonetic_map[lo][2])
    ELSE LET half == apply_phonetic_map(w, lo, (lo + hi) \div 2)
         IN  IF Len(half) >= 0
             THEN apply_phonetic_map(half, ((lo + hi) \div 2) + 1, hi)
             ELSE half

normalize_phonetic(word) ==
    sub_consonant_runs(
        sub_vowel_runs(apply_phonetic_map(lower(word), 1, Len(phonetic_map))))

(***************************************************************************)
(* Scores: exact fractions <<n, d>> with n >= 0, d > 0, in lowest terms.   *)
(***************************************************************************)
RECURSIVE Gcd(_, _)
Gcd(a, b) == IF b = 0 THEN a ELSE Gcd(b, a % b)

Frac(n, d) == <<n \div Gcd(n, d), d \div Gcd(n, d)>>

\* a[1]/a[2] < b[1]/b[2], by comparing the continued fractions (no products)
RECURSIVE FracLess(_, _)
FracLess(a, b) ==
    IF a[1] \div a[2] # b[1] \div b[2] THEN a[1] \div a[2] < b[1] \div b[2]
    ELSE IF b[1] % b[2] = 0 THEN FALSE
    ELSE IF a[1] % a[2] = 0 THEN TRUE
    ELSE FracLess(<<b[2], b[1] % b[2]>>, <<a[2], a[1] % a[2]>>)

FracLeq(a, b) == ~FracLess(b, a)

(***************************************************************************)
(* difflib.SequenceMatcher(None, a, b).ratio(), no junk (isjunk is None,   *)
(* and the popularity heuristic needs len(b) >= 200).                      *)
(***************************************************************************)
\* the length of the longest common run of a from i and b from j (1-based)
RECURSIVE CommonRun(_, _, _, _)
CommonRun(a, b, i, j) ==
    IF i <= Len(a) /\ j <= Len(b) /\ a[i] = b[j]
    THEN 1 + CommonRun(a, b, i + 1, j + 1) ELSE 0

\* find_longest_match over the whole of a and b: <<i, j, size>>, the longest
\* block, of those the one starting earliest in a, of those the one starting
\* earliest in b; <<1, 1, 0>> when nothing matches
find_longest_match(a, b) ==
    LET sizes == {CommonRun(a, b, i, j) : i \in 1..Len(a), j \in 1..Len(b)}
        bestsize == CHOOSE k \in sizes : \A x \in sizes : x <= k
        besti == CHOOSE i \in 1..Len(a) :
                    /\ \E j \in 1..Len(b) : CommonRun(a, b, i, j) = bestsize
                    /\ \A x \in 1..(i - 1) : \A j \in 1..Len(b) :
                            CommonRun(a, b, x, j) # bestsize
        bestj == CHOOSE j \in 1..Len(b) :
                    /\ CommonRun(a, b, besti, j) = bestsize
                    /\ \A y \in 1..(j - 1) : CommonRun(a, b, besti, y) # bestsize
    IN  IF a = <<>> \/ b = <<>> THEN <<1, 1, 0>>
        ELSE IF bestsize = 0 THEN <<1, 1, 0>>
        ELSE <<besti, bestj, bestsize>>

\* get_matching_blocks, summed: the matched characters of a against b. The
\* longest block m = <<i, j, size>> splits a and b; what lies left of it and
\* what lies right of it are matched in turn.
RECURSIVE matching_size(_, _)
matching_blocks(a, b, m) ==
    IF m[3] = 0 THEN 0
    ELSE m[3]
         + matching_size(SubSeq(a, 1, m[1] - 1), SubSeq(b, 1, m[2] - 1))
         + matching_size(SubSeq(a, m[1] + m[3], Len(a)),
                         SubSeq(b, m[2] + m[3], Len(b)))

matching_size(a, b) == matching_blocks(a, b, find_longest_match(a, b))

\* ratio(): 2.0 * matches / length, and 1.0 when length is 0
sequence_ratio(a, b) ==
    IF Len(a) + Len(b) = 0 THEN <<1, 1>>
    ELSE Frac(2 * matching_size(a, b), Len(a) + Len(b))

(***************************************************************************)
(* _jaro_similarity.  Indices i, j, k are the code's (0-based); the flag   *)
(* lists are 1-based sequences, so s1_matches[i] is matches1[i + 1].       *)
(***************************************************************************)
\* one iteration of the matching loop, for index i of s1
\* (mutation) only s1_matches[i] is set, s2_matches[j] is not
jaro_match_step_s1_only(s1, s2, match_dist, i, st) ==
    LET free == {j \in Max(0, i - match_dist)..(Min(i + match_dist + 1, Len(s2)) - 1) :
                    ~st.s2_matches[j + 1] /\ s1[i + 1] = s2[j + 1]}
    IN  IF free = {} THEN st
        ELSE [s1_matches |-> [st.s1_matches EXCEPT ![i + 1] = TRUE],
              s2_matches |-> st.s2_matches,
              matches |-> st.matches + 1]

jaro_match_step(s1, s2, match_dist, i, st) ==
    LET start == Max(0, i - match_dist)
        end == Min(i + match_dist + 1, Len(s2))
        free == {j \in start..(end - 1) :
                    ~st.s2_matches[j + 1] /\ s1[i + 1] = s2[j + 1]}
        j == CHOOSE x \in free : \A y \in free : x <= y
    IN  IF free = {} THEN st
        ELSE [s1_matches |-> [st.s1_matches EXCEPT ![i + 1] = TRUE],
              s2_matches |-> [st.s2_matches EXCEPT ![j + 1] = TRUE],
              matches |-> st.matches + 1]

RECURSIVE jaro_match_loop(_, _, _, _, _)
jaro_match_loop(s1, s2, match_dist, i, st) ==
    IF i >= Len(s1) THEN st
    ELSE jaro_match_loop(s1, s2, match_dist, i + 1,
                         jaro_match_step(s1, s2, match_dist, i, st))

\* the transposition loop from index i of s1 on, with k into s2 and t so far;
\* raised when s2_matches[k] or s2[k] is read at k = len(s2) (IndexError)
RECURSIVE jaro_transpositions(_, _, _, _, _, _)
jaro_transpositions(s1, s2, st, i, k, t) ==
    IF i >= Len(s1) THEN [t |-> t, k |-> k, raised |-> FALSE]
    ELSE IF ~st.s1_matches[i + 1]
         THEN jaro_transpositions(s1, s2, st, i + 1, k, t)
         ELSE LET marked == {x \in k..(Len(s2) - 1) : st.s2_matches[x + 1]}
                  kk == CHOOSE x \in marked : \A y \in marked : x <= y
              IN  IF marked = {} THEN [t |-> t, k |-> Len(s2), raised |-> TRUE]
                  ELSE jaro_transpositions(s1, s2, st, i + 1, kk + 1,
                            IF s1[i + 1] # s2[kk + 1] THEN t + 1 ELSE t)

\* the return statements, given the flags st the matching loop left and the
\* outcome tr of the transposition loop; the locals are kept for inspection
jaro_return(s1, s2, st, tr) ==
    [value |->
        IF s1 = s2 THEN <<1, 1>>
        ELSE IF Len(s1) = 0 \/ Len(s2) = 0 \/ st.matches = 0 \/ tr.raised
             THEN <<0, 1>>
        ELSE Frac(2 * st.matches * st.matches * (Len(s1) + Len(s2))
                    + (2 * st.matches - tr.t) * Len(s1) * Len(s2),
                  6 * st.matches * Len(s1) * Len(s2)),
     raised |-> s1 # s2 /\ Len(s1) # 0 /\ Len(s2) # 0 /\ st.matches # 0
                /\ tr.raised,
     k |-> tr.k,
     s1_matches |-> st.s1_matches,
     s2_matches |-> st.s2_matches,
     matches |-> st.matches]

jaro_after_matching(s1, s2, st) ==
    jaro_return(s1, s2, st, jaro_transpositions(s1, s2, st, 0, 0, 0))

jaro_similarity(s1, s2) ==
    jaro_after_matching(s1, s2,
        jaro_match_loop(s1, s2, (Max(Len(s1), Len(s2)) \div 2) - 1, 0,
            [s1_matches |-> [i \in 1..Len(s1) |-> FALSE],
             s2_matches |-> [j \in 1..Len(s2) |-> FALSE],
             matches |-> 0]))

(***************************************************************************)
(* calculate_similarity_score: [value, raised]; raised is ZeroDivisionError *)
(* at ld / max(len(w1), len(w2)) or an exception out of _jaro_similarity.  *)
(***************************************************************************)
length_penalty(a, b) ==
    Frac(Max(Len(a), Len(b)) - Abs(Len(a) - Len(b)), Max(Len(a), Len(b)))

\* a/b + c/d
FracAdd(x, y) ==
    Frac(x[1] * (y[2] \div Gcd(x[2], y[2])) + y[1] * (x[2] \div Gcd(x[2], y[2])),
         (x[2] \div Gcd(x[2], y[2])) * y[2])
\* (n/10) * x
Weighted(n, x) == Frac(n * x[1], 10 * x[2])

\* seq_sim*0.3 + phon_sim*0.4 + lp*0.1 + jaro*0.2
weighted_sum(seq_sim, phon_sim, lp, jaro) ==
    FracAdd(FracAdd(FracAdd(Weighted(3, seq_sim), Weighted(4, phon_sim)),
                    Weighted(1, lp)),
            Weighted(2, jaro))

score_of(seq_sim, phon_sim, lp, jaro) ==
    [value |-> weighted_sum(seq_sim, phon_sim, lp, jaro.value),
     raised |-> jaro.raised]

\* (mutation) the case-insensitive equality test left out
calculate_similarity_score_no_equal_test(a, b) ==
    IF Max(Len(a), Len(b)) = 0 THEN [value |-> <<0, 1>>, raised |-> TRUE]
    ELSE score_of(sequence_ratio(lower(a), lower(b)),
                  sequence_ratio(normalize_phonetic(a), normalize_phonetic(b)),
                  length_penalty(a, b),
                  jaro_similarity(lower(a), lower(b)))

calculate_similarity_score(a, b) ==
    IF lower(a) = lower(b) THEN [value |-> <<1, 1>>, raised |-> FALSE]
    ELSE IF Max(Len(a), Len(b)) = 0 THEN [value |-> <<0, 1>>, raised |-> TRUE]
    ELSE score_of(sequence_ratio(lower(a), lower(b)),
                  sequence_ratio(normalize_phonetic(a), normalize_phonetic(b)),
                  length_penalty(a, b),
                  jaro_similarity(lower(a), lower(b)))

(***************************************************************************)
(* load_reference_dictionary: the loop over the lines of the file.         *)
(***************************************************************************)
\* (mutation) insert(0, word) in place of append(word)
variants_prepend(variants, key, word) ==
    IF key \in DOMAIN variants
    THEN [variants EXCEPT ![key] = <<word>> \o @]
    ELSE variants @@ (key :> <<word>>)

\* self.word_variants[key].append(word) on a defaultdict(list)
variants_append(variants, key, word) ==
    IF key \in DOMAIN variants
    THEN [variants EXCEPT ![key] = Append(@, word)]
    ELSE variants @@ (key :> <<word>>)

RECURSIVE load_reference_dictionary(_, _, _, _)
load_reference_dictionary(lines, k, words, variants) ==
    IF k > Len(lines) THEN [reference_words |-> words, word_variants |-> variants]
    ELSE IF strip(lines[k]) # <<>>
         THEN load_reference_dictionary(lines, k + 1,
                    words \union {strip(lines[k])},
                    variants_append(variants, lower(strip(lines[k])),
                                    strip(lines[k])))
         ELSE load_reference_dictionary(lines, k + 1, words, variants)

\* __init__: the empty set and defaultdict, then the load
construct(lines) == load_reference_dictionary(lines, 1, {}, <<>>)

(***************************************************************************)
(* The tokens the model draws its inputs from.                             *)
(***************************************************************************)
FileLines == { <<"A","b">>, <<"A","B">>, <<"B","a">>, <<" ","B","a"," ">>, <<>> }
Queries == { <<>>, <<"a","B">>, <<"A","a","b">>, <<"b">>, <<"z","z">> }
Thresholds == { <<0, 1>>, <<3, 5>>, <<1, 1>> }

\* create_demo_files: the first six words of ref, and err
DemoReference ==
    << <<"R","a","m">>, <<"K","r","i","s","h","n","a">>, <<"S","h","i","v","a">>,
       <<"V","i","s","h","n","u">>, <<"G","a","n","g","a">>,
       <<"Y","a","m","u","n","a">> >>
DemoErrors ==
    << <<"R","A","A","M">>, <<"K","r","i","i","s","h","n","a">>,
       <<"S","h","i","i","v">>, <<"G","a","a","n","g","a">>,
       <<"Y","a","m","u","u","n","a">> >>

Range(f) == {f[i] : i \in DOMAIN f}

(***************************************************************************)
(* find_best_match.                                                        *)
(***************************************************************************)
\* The scores of the (query, reference word) pairs the model can ask for,
\* each computed by calculate_similarity_score, once.
ScoredPairs ==
    ((Queries \union {strip(l) : l \in FileLines}) \X {strip(l) : l \in FileLines})
    \union (Range(DemoErrors) \X Range(DemoReference))
ScoreTable ==
    [p \in ScoredPairs |-> calculate_similarity_score(p[1], p[2])] @@ <<>>
similarity(a, b) ==
    IF <<a, b>> \in DOMAIN ScoreTable THEN ScoreTable[<<a, b>>]
    ELSE calculate_similarity_score(a, b)

\* the loop over self.reference_words, from position k of its iteration order
RECURSIVE scan_reference_words(_, _, _, _, _, _)
\* (mutation) "score >= best_score": a later equal score replaces the best
scan_step_ties(error_word, thr, order, k, best, best_score, score) ==
    IF score.raised THEN [result |-> best, raised |-> TRUE]
    ELSE IF FracLeq(thr, score.value) /\ FracLeq(best_score, score.value)
         THEN scan_reference_words(error_word, thr, order, k + 1,
                                   order[k], score.value)
         ELSE scan_reference_words(error_word, thr, order, k + 1,
                                   best, best_score)

\* (mutation) the test "score > best_score" left out
scan_step_any(error_word, thr, order, k, best, best_score, score) ==
    IF score.raised THEN [result |-> best, raised |-> TRUE]
    ELSE IF FracLeq(thr, score.value)
         THEN scan_reference_words(error_word, thr, order, k + 1,
                                   order[k], score.value)
         ELSE scan_reference_words(error_word, thr, order, k + 1,
                                   best, best_score)

scan_step(error_word, thr, order, k, best, best_score, score) ==
    IF score.raised THEN [result |-> best, raised |-> TRUE]
    ELSE IF FracLeq(thr, score.value) /\ FracLess(best_score, score.value)
         THEN scan_reference_words(error_word, thr, order, k + 1,
                                   order[k], score.value)
         ELSE scan_reference_words(error_word, thr, order, k + 1,
                                   best, best_score)

\* (mutation) "return ref", the loop variable, in place of "return best"
scan_return_ref(error_word, thr, order, k, best, best_score) ==
    IF k > Len(order)
    THEN [result |-> IF order = <<>> THEN best ELSE order[Len(order)],
          raised |-> FALSE]
    ELSE scan_step(error_word, thr, order, k, best, best_score,
                   similarity(error_word, order[k]))

scan_reference_words(error_word, thr, order, k, best, best_score) ==
    IF k > Len(order) THEN [result |-> best, raised |-> FALSE]
    ELSE scan_step(error_word, thr, order, k, best, best_score,
                   similarity(error_word, order[k]))

\* the returned token, whether the call raised, the scores it computed, and
\* self.word_variants as the call leaves it
scanned(scan, order, variants) ==
    [result |-> scan.result, raised |-> scan.raised,
     n_scored |-> Len(order), word_variants |-> variants]

\* (mutation) "if self.word_variants[lw]:", which makes the defaultdict
\* insert the missing key
find_best_match_getitem(error_word, thr, variants, order) ==
    IF lower(error_word) \in DOMAIN variants /\ variants[lower(error_word)] # <<>>
    THEN [result |-> variants[lower(error_word)][1], raised |-> FALSE,
          n_scored |-> 0, word_variants |-> variants]
    ELSE scanned(scan_reference_words(error_word, thr, order, 1,
                                      error_word, <<0, 1>>),
                 order, variants @@ (lower(error_word) :> <<>>))

\* (mutation) "return lw" in place of "return self.word_variants[lw][0]"
find_best_match_lw(error_word, thr, variants, order) ==
    IF lower(error_word) \in DOMAIN variants
    THEN [result |-> lower(error_word), raised |-> FALSE,
          n_scored |-> 0, word_variants |-> variants]
    ELSE scanned(scan_reference_words(error_word, thr, order, 1,
                                      error_word, <<0, 1>>),
                 order, variants)

find_best_match(error_word, thr, variants, order) ==
    IF lower(error_word) \in DOMAIN variants
    THEN [result |-> variants[lower(error_word)][1], raised |-> FALSE,
          n_scored |-> 0, word_variants |-> variants]
    ELSE scanned(scan_reference_words(error_word, thr, order, 1,
                                      error_word, <<0, 1>>),
                 order, variants)

(***************************************************************************)
(* process_file: the (original, corrected) pairs of the lines from k on.   *)
(***************************************************************************)
RECURSIVE process_file(_, _, _, _, _)
process_file(lines, k, thr, variants, order) ==
    IF k > Len(lines) THEN <<>>
    ELSE IF strip(lines[k]) # <<>>
         THEN << <<strip(lines[k]),
                   find_best_match(strip(lines[k]), thr, variants, order).result>> >>
              \o process_file(lines, k + 1, thr, variants, order)
         ELSE process_file(lines, k + 1, thr, variants, order)

(***************************************************************************)
(* The corrector, loaded from a reference file and then queried.           *)
(***************************************************************************)
\* the sequences over S of length at most n
RECURSIVE SeqsUpTo(_, _)
SeqsUpTo(S, n) ==
    IF n = 0 THEN {<<>>}
    ELSE SeqsUpTo(S, n - 1)
         \union {Append(q, x) : q \in {y \in SeqsUpTo(S, n - 1) : Len(y) = n - 1},
                                x \in S}

\* the orders in which a set can be iterated
Orders(S) ==
    {o \in [1..Cardinality(S) -> S] : \A x \in S : \E i \in DOMAIN o : o[i] = x}

Idle ==
    /\ query = <<>> /\ threshold = <<3, 5>> /\ result = <<>>
    /\ raised = FALSE /\ n_scored = 0 /\ original = <<>>
    /\ input_file = <<>> /\ results = <<>>
    /\ w1 = <<>> /\ w2 = <<>> /\ ret = <<>>

Init ==
    /\ reference_file \in SeqsUpTo(FileLines, MaxLines)
    /\ reference_words = construct(reference_file).reference_words
    /\ word_variants = construct(reference_file).word_variants
    /\ scan_order \in Orders(reference_words)
    /\ pc = "loaded"
    /\ Idle

Returned(error_word, thr, r) ==
    /\ query' = error_word
    /\ threshold' = thr
    /\ result' = r.result
    /\ raised' = r.raised
    /\ n_scored' = r.n_scored
    /\ word_variants' = r.word_variants
    /\ UNCHANGED <<reference_file, reference_words, scan_order,
                   input_file, results, w1, w2, ret>>

Call(error_word, thr) ==
    Returned(error_word, thr,
             find_best_match(error_word, thr, word_variants, scan_order))

\* a caller corrects a token
FindBestMatch(error_word, thr) ==
    /\ pc \in {"loaded", "match", "rematch"}
    /\ Call(error_word, thr)
    /\ original' = error_word
    /\ pc' = "match"

\* a caller corrects the correction it was given, with the same threshold
Recorrect ==
    /\ pc \in {"match", "rematch"}
    /\ ~raised
    /\ Call(result, threshold)
    /\ original' = original
    /\ pc' = "rematch"

Next ==
    \/ \E error_word \in Queries, thr \in Thresholds : FindBestMatch(error_word, thr)
    \/ Recorrect

Spec == Init /\ [][Next]_vars

(***************************************************************************)
(* run_demo: the corrector loaded from the six-word reference file, then   *)
(* process_file over the error file with threshold 0.6.                    *)
(***************************************************************************)
InitDemo ==
    /\ reference_file = DemoReference
    /\ reference_words = construct(reference_file).reference_words
    /\ word_variants = construct(reference_file).word_variants
    /\ scan_order \in Orders(reference_words)
    /\ pc = "loaded"
    /\ query = <<>> /\ threshold = <<3, 5>> /\ result = <<>>
    /\ raised = FALSE /\ n_scored = 0 /\ original = <<>>
    /\ input_file = DemoErrors /\ results = <<>>
    /\ w1 = <<>> /\ w2 = <<>> /\ ret = <<>>

ProcessFile ==
    /\ pc = "loaded"
    /\ results' = process_file(input_file, 1, threshold, word_variants, scan_order)
    /\ pc' = "written"
    /\ UNCHANGED <<reference_file, reference_words, word_variants, scan_order,
                   query, threshold, result, raised, n_scored, original,
                   input_file, w1, w2, ret>>

NextDemo == ProcessFile

SpecDemo == InitDemo /\ [][NextDemo]_vars

(***************************************************************************)
(* The scoring functions called directly on a pair of tokens.              *)
(***************************************************************************)
ScoreAlphabet == {"a", "s", "h"}
ExtraTokens ==
    { <<"A">>, <<"S","h">>, <<"a","s","h","a">>, <<"a","h","s","a">>,
      <<"a","a","a","a">> }
Tokens == SeqsUpTo(ScoreAlphabet, MaxLen) \union ExtraTokens

InitScore ==
    /\ w1 \in Tokens
    /\ w2 \in Tokens
    /\ ret = <<>>
    /\ pc = "input"
    /\ reference_file = <<>> /\ reference_words = {} /\ word_variants = <<>>
    /\ scan_order = <<>>
    /\ query = <<>> /\ threshold = <<3, 5>> /\ result = <<>>
    /\ raised = FALSE /\ n_scored = 0 /\ original = <<>>
    /\ input_file = <<>> /\ results = <<>>

Applied(name, value) ==
    /\ pc = "input"
    /\ pc' = name
    /\ ret' = value
    /\ UNCHANGED <<reference_file, reference_words, word_variants, scan_order,
                   query, threshold, result, raised, n_scored, original,
                   input_file, results, w1, w2>>

\* score(w1, w2) and score(w2, w1)
Score ==
    Applied("scored", [ab |-> calculate_similarity_score(w1, w2),
                       ba |-> calculate_similarity_score(w2, w1)])

\* _jaro_similarity on the case-folded tokens, as calculate_similarity_score calls it
Jaro == Applied("jaro", jaro_similarity(lower(w1), lower(w2)))

\* normalize_phonetic of each token
Normalize == Applied("normalized", <<normalize_phonetic(w1), normalize_phonetic(w2)>>)

NextScore == Score \/ Jaro \/ Normalize

SpecScore == InitScore /\ [][NextScore]_vars

(***************************************************************************)
(* What the claims speak of, stated from the reference file and the state. *)
(***************************************************************************)
RECURSIVE StrippedWords(_)
\* the non-empty stripped lines, in file order
StrippedWords(lines) ==
    IF lines = <<>> THEN <<>>
    ELSE IF strip(Head(lines)) = <<>> THEN StrippedWords(Tail(lines))
    ELSE <<strip(Head(lines))>> \o StrippedWords(Tail(lines))

Inserted == StrippedWords(reference_file)
\* the positions of the inserted tokens that equal q case-insensitively
HitsOf(q) == {i \in DOMAIN Inserted : lower(Inserted[i]) = lower(q)}
FirstInserted(q) == Inserted[CHOOSE i \in HitsOf(q) : \A j \in HitsOf(q) : i <= j]
Called == pc \in {"match", "rematch"}
Miss == Called /\ HitsOf(query) = {}
ScoreAgainst(ref) == similarity(query, ref).value
\* position k of the scan holds the maximum score over the vocabulary
MaxAt(k) ==
    \A j \in DOMAIN scan_order :
        FracLeq(ScoreAgainst(scan_order[j]), ScoreAgainst(scan_order[k]))
EarliestMax ==
    CHOOSE k \in DOMAIN scan_order : MaxAt(k) /\ \A j \in 1..(k - 1) : ~MaxAt(j)
NoCaseVariants ==
    \A x \in reference_words, y \in reference_words : lower(x) = lower(y) => x = y
CountTrue(flags) == Cardinality({i \in DOMAIN flags : flags[i]})

\* C1: when the query equals a vocabulary token case-insensitively, the call
\* returns the first-inserted such token, computes no score and does so
\* whatever the threshold.
C1_ExactHitReturnsFirstInserted ==
    (Called /\ HitsOf(query) # {})
        => (result = FirstInserted(query) /\ n_scored = 0 /\ ~raised)

C1_Witness ==
    /\ Called
    /\ threshold = <<1, 1>>
    /\ Cardinality({Inserted[i] : i \in HitsOf(query)}) >= 2
    /\ result = FirstInserted(query)
    /\ result # query
    /\ n_scored = 0

C3_UnmatchedReturnsQuery ==
    (Miss /\ \A ref \in reference_words : FracLess(ScoreAgainst(ref), threshold))
        => (result = query /\ ~raised)

C3_Witness ==
    /\ Miss
    /\ Cardinality(reference_words) >= 2
    /\ query # <<>>
    /\ FracLess(<<0, 1>>, threshold)
    /\ \A ref \in reference_words : FracLess(ScoreAgainst(ref), threshold)
    /\ result = query
    /\ n_scored = Cardinality(reference_words)

\* C7: after any sequence of calls the vocabulary set and the lowercase
\* lookup (its keys and each key's list) are what the load made of the file.
C7_VocabularyUnchanged ==
    Called =>
        /\ reference_words = Range(Inserted)
        /\ DOMAIN word_variants = {lower(w) : w \in Range(Inserted)}
        /\ \A key \in DOMAIN word_variants :
                word_variants[key] = SelectSeq(Inserted, LAMBDA w : lower(w) = key)

C7_Witness ==
    /\ pc = "rematch"
    /\ reference_words # {}
    /\ n_scored > 0
    /\ lower(query) \notin DOMAIN word_variants
    /\ Cardinality(DOMAIN word_variants) < Cardinality(reference_words)

\* C9 (as claimed): a correction corrected again, with the same threshold, is
\* itself.
C9_Idempotent == (pc = "rematch") => result = query

\* C9 (amended): a correction corrected again is itself when no two
\* vocabulary tokens differ only in case; otherwise it is itself or the
\* first-inserted token that equals it case-insensitively.
C9_IdempotentUpToCaseVariant ==
    (pc = "rematch") =>
        /\ NoCaseVariants => result = query
        /\ result # query => (HitsOf(query) # {} /\ result = FirstInserted(query))

C9_Witness ==
    /\ pc = "rematch"
    /\ NoCaseVariants
    /\ Cardinality(reference_words) >= 2
    /\ HitsOf(original) = {}
    /\ original # query
    /\ result = query

\* C4: the demo vocabulary and queries at threshold 0.6 give the corrections
\* Ram, Krishna, Shiva, Ganga, Yamuna in that order, whatever the order in
\* which the vocabulary set is iterated.
DemoExpected ==
    << <<"R","a","m">>, <<"K","r","i","s","h","n","a">>, <<"S","h","i","v","a">>,
       <<"G","a","n","g","a">>, <<"Y","a","m","u","n","a">> >>

C4_DemoCorrections ==
    (pc = "written") =>
        /\ Len(results) = Len(DemoErrors)
        /\ \A i \in DOMAIN results : results[i] = <<DemoErrors[i], DemoExpected[i]>>

C4_Witness ==
    /\ pc = "written"
    /\ scan_order[1] = <<"V","i","s","h","n","u">>
    /\ scan_order[Len(scan_order)] = <<"R","a","m">>
    /\ results[2] = <<DemoErrors[2], <<"K","r","i","s","h","n","a">>>>
    /\ Len(results) = Len(DemoErrors)

\* C5 (as claimed): score(a, b) = score(b, a) for all token pairs.
C5_ScoreSymmetric == (pc = "scored") => ret.ab.value = ret.ba.value

\* C6: for all token pairs, empty tokens included, the score is in [0, 1]
\* and the call raises nothing.
C6_ScoreInUnitInterval ==
    (pc = "scored") =>
        /\ ~ret.ab.raised
        /\ ret.ab.value[2] > 0
        /\ 0 <= ret.ab.value[1]
        /\ ret.ab.value[1] <= ret.ab.value[2]

C6_Witness ==
    /\ pc = "scored"
    /\ w1 = <<>> /\ w2 = <<>>
    /\ ~ret.ab.raised
    /\ ret.ab.value = <<1, 1>>

\* b is a with one run of 2, 3 or 4 of a vowel (not continued on either
\* side) replaced by the single vowel
RunCollapsed(a, b) ==
    \E i \in 1..Len(a), n \in 2..4 :
        /\ i + n - 1 <= Len(a)
        /\ lower(a)[i] \in Vowels
        /\ \A j \in i..(i + n - 1) : lower(a)[j] = lower(a)[i]
        /\ i = 1 \/ lower(a)[i - 1] # lower(a)[i]
        /\ i + n - 1 = Len(a) \/ lower(a)[i + n] # lower(a)[i]
        /\ b = SubSeq(a, 1, i - 1) \o <<a[i]>> \o SubSeq(a, i + n, Len(a))

\* C8 (as claimed): a token with a run of 2, 3 or 4 of a vowel has the
\* phonetic form of the token with that run replaced by the single vowel.
C8_VowelRunsCollapse ==
    (pc = "normalized" /\ RunCollapsed(w1, w2)) => ret[1] = ret[2]

\* C10: in _jaro_similarity as many positions are marked in s1 as in s2, and
\* the transposition loop never reads s2_matches[k] or s2[k] at k = len(s2).
C10_JaroIndexInBounds ==
    (pc = "jaro") =>
        /\ CountTrue(ret.s1_matches) = CountTrue(ret.s2_matches)
        /\ CountTrue(ret.s1_matches) = ret.matches
        /\ ~ret.raised
        /\ ret.k <= Len(w2)

C10_Witness ==
    /\ pc = "jaro"
    /\ lower(w1) # lower(w2)
    /\ ret.matches >= 2
    /\ \E j \in DOMAIN ret.s2_matches, j2 \in DOMAIN ret.s2_matches :
            j < j2 /\ ~ret.s2_matches[j] /\ ret.s2_matches[j2]
    /\ ret.k > ret.matches
    /\ ~ret.raised

====
